---- MODULE Spec2Model ----
(***************************************************************************)
(* The dashboard of src/src/components/Dashboard.jsx together with the API *)
(* service of src/unnamed/part_000: the React state of the component, the  *)
(* requests in flight, and one action per event handler / continuation.    *)
(***************************************************************************)
EXTENDS Bags, FiniteSets, Integers, Sequences, TLC

VARIABLES
    activeTab,          \* useState('calendar')
    upcomingResults,    \* useState([])
    latestResults,      \* useState([])
    chatInput,          \* useState('')
    chatMessages,       \* useState([greeting])
    loading,            \* useState(false)
    error,              \* useState(null)
    processingCompany,  \* useState(null)
    notification,       \* useState(null)
    timers,             \* pending setTimeout callbacks of the toast effect, each
                        \* named by the message whose render set it
    loads,              \* bag of list fetches in flight ("upcoming" / "latest")
    analyses,           \* bag of triggerResultProcessing calls in flight
    chats,              \* bag of sendChatMessage calls in flight (by question)
    asked,              \* history: the questions of the accepted submits, in order
    overlapped,         \* history: a submit was accepted while a chat request was outstanding
    lastFetched,        \* history: what the last resolved fetch of each list returned
    lastResult,         \* history: the company, the outcome and the tagged result of
                        \* the last resolved analysis
    replaced,           \* history: the message on display was shown while a different
                        \* message was still on display
    stale               \* history: a message was shown since the pending timer was set

vars == <<activeTab, upcomingResults, latestResults, chatInput, chatMessages,
          loading, error, processingCompany, notification, timers,
          loads, analyses, chats, asked, overlapped, lastFetched, lastResult,
          replaced, stale>>

uiVars   == <<activeTab, loading, error>>
listVars == <<upcomingResults, latestResults, lastFetched>>
chatVars == <<chatInput, chatMessages, chats, asked, overlapped>>
procVars == <<processingCompany, analyses, lastResult>>
toastVars == <<notification, timers, replaced, stale>>

----------------------------------------------------------------------------
(* Bounds *)

MaxLoads == 2       \* list fetches in flight at once
MaxAnalyses == 2    \* analysis requests in flight at once
MaxChats == 2       \* chat requests in flight at once
MaxSubmits == 2     \* accepted chat submits in one session

----------------------------------------------------------------------------
(* Values *)

Tabs == {"calendar", "latest", "chat"}

Null == "null"      \* JS null in a string-valued slot
NoToast == <<>>     \* JS null in the notification slot

Wipro == [company_name |-> "Wipro", company_symbol |-> "WIPRO"]
TCS == [company_name |-> "TCS", company_symbol |-> "TCS"]

\* bodies the backend may answer GET /upcoming-results with
UpcomingFeeds == {<<Wipro>>, <<TCS, Wipro>>}
\* bodies the backend may answer GET /latest-results with
LatestFeeds == {<<"Wipro">>, <<"Wipro", "TCS">>}

\* texts are sequences of tokens; a one-character token is a character
Greeting == <<"Hey! Ask me anything about recent results.">>
Thinking == <<"Analyzing...">>
Apology == <<"Sorry, I could not process that.">>
ConnError == <<"Error connecting to server.">>

\* what the user may type in the chat box
ChatInputs == {<<>>, <<" ">>, <<"a">>, <<" ", "b">>}

\* the answer the backend gives to a question
Answer(q) == <<"re:">> \o q

\* outcome of one fetch(): the transport fails, the status is not ok, the body
\* is not JSON (response.json() rejects), or a body arrives; falsy marks a body
\* (or answer field) that is null, absent or empty
Outcomes(bodies) ==
    {[kind |-> "network", falsy |-> TRUE, body |-> <<>>],
     [kind |-> "http", falsy |-> TRUE, body |-> <<>>],
     [kind |-> "badjson", falsy |-> TRUE, body |-> <<>>],
     [kind |-> "ok", falsy |-> TRUE, body |-> <<>>]}
    \cup {[kind |-> "ok", falsy |-> FALSE, body |-> b] : b \in bodies}

----------------------------------------------------------------------------
(* src/unnamed/part_000: the API service.  Each operation maps the outcome *)
(* of its fetch() to what the caller gets: threw = TRUE is a rejection.    *)

\* a slip: the catch block rethrows instead of returning []
fetchUpcomingResults_Rethrows(o) ==
    IF o.kind = "ok"
    THEN [threw |-> FALSE, value |-> IF ~o.falsy THEN o.body ELSE <<>>]
    ELSE [threw |-> TRUE, value |-> <<>>]

fetchUpcomingResults(o) ==
    IF o.kind = "ok"
    THEN [threw |-> FALSE, value |-> IF ~o.falsy THEN o.body ELSE <<>>]
    ELSE [threw |-> FALSE, value |-> <<>>]

fetchLatestResults(o) ==
    IF o.kind = "ok"
    THEN [threw |-> FALSE, value |-> IF ~o.falsy THEN o.body ELSE <<>>]
    ELSE [threw |-> FALSE, value |-> <<>>]

\* a slip: the catch block rethrows instead of returning the fixed string
sendChatMessage_Rethrows(o) ==
    IF o.kind = "ok"
    THEN [threw |-> FALSE, value |-> IF ~o.falsy THEN o.body ELSE Apology]
    ELSE [threw |-> TRUE, value |-> <<>>]

sendChatMessage(o) ==
    IF o.kind = "ok"
    THEN [threw |-> FALSE, value |-> IF ~o.falsy THEN o.body ELSE Apology]
    ELSE [threw |-> FALSE, value |-> ConnError]

ErrorMessage(o) ==
    IF o.kind = "http" THEN "Failed to process result"
    ELSE IF o.kind = "badjson" THEN "Unexpected end of JSON input"
    ELSE "Failed to fetch"

\* a slip: the test of response.ok is missing, so an error status whose body
\* parses is reported as success
triggerResultProcessing_NoStatusTest(o) ==
    IF o.kind \in {"ok", "http"}
    THEN [threw |-> FALSE, value |-> [status |-> "success", data |-> o.body]]
    ELSE [threw |-> FALSE, value |-> [status |-> "error", error |-> ErrorMessage(o)]]

triggerResultProcessing(o) ==
    IF o.kind = "ok"
    THEN [threw |-> FALSE, value |-> [status |-> "success", data |-> o.body]]
    ELSE [threw |-> FALSE, value |-> [status |-> "error", error |-> ErrorMessage(o)]]

----------------------------------------------------------------------------
Init ==
    /\ activeTab = "calendar"
    /\ upcomingResults = <<>>
    /\ latestResults = <<>>
    /\ chatInput = <<>>
    /\ chatMessages = <<[type |-> "bot", text |-> Greeting]>>
    /\ loading = TRUE
    /\ error = Null
    /\ processingCompany = Null
    /\ notification = NoToast
    /\ timers = {}
    /\ loads = SetToBag({"upcoming"})
    /\ analyses = EmptyBag
    /\ chats = EmptyBag
    /\ asked = <<>>
    /\ overlapped = FALSE
    /\ lastFetched = [upcoming |-> [failed |-> FALSE,
                                    ret |-> [threw |-> FALSE, value |-> <<>>]],
                      latest |-> [failed |-> FALSE,
                                  ret |-> [threw |-> FALSE, value |-> <<>>]]]
    /\ lastResult = [company |-> Null, ok |-> FALSE, threw |-> FALSE,
                     result |-> [status |-> "none"]]
    /\ replaced = FALSE
    /\ stale = FALSE

----------------------------------------------------------------------------
(* Helpers *)

One(x) == SetToBag({x})

Range(s) == {s[i] : i \in 1..Len(s)}

\* String.prototype.trim on a text of one-character tokens
RECURSIVE TrimLeft(_)
TrimLeft(s) ==
    IF s # <<>> /\ Head(s) = " " THEN TrimLeft(Tail(s)) ELSE s

RECURSIVE TrimRight(_)
TrimRight(s) ==
    IF s # <<>> /\ s[Len(s)] = " " THEN TrimRight(SubSeq(s, 1, Len(s) - 1)) ELSE s

\* a slip: the input is tested without trim()
Trim_Missing(s) == s

Trim(s) == TrimRight(TrimLeft(s))

\* a slip: prev.slice(1) drops the first turn instead of the last
SliceDropFirst(prev) == Tail(prev)

\* a slip: prev.slice(0, -2) drops the question with the placeholder
SliceDropLastTwo(prev) == SubSeq(prev, 1, Len(prev) - 2)

\* prev.slice(0, -1)
SliceDropLast(prev) == SubSeq(prev, 1, Len(prev) - 1)

\* the updater of the first two setChatMessages calls: prev => [...prev, m]
AppendTurn(prev, m) == Append(prev, m)

\* a slip: the answer is appended and the placeholder stays
ReplaceLastTurn_Appends(prev, answer) ==
    Append(prev, [type |-> "bot", text |-> answer])

\* the updater of the last setChatMessages call
ReplaceLastTurn(prev, answer) ==
    Append(SliceDropLast(prev), [type |-> "bot", text |-> answer])

\* a slip: the fetched items are merged into the list on display
SetResults_Merges(prev, data) == prev \o data

\* setUpcomingResults(data) / setLatestResults(data): the state becomes data
SetResults(prev, data) == data

SuccessToast(company) == <<"Successfully processed", company, "results!">>
ErrorToast(company, detail) == <<"Error processing", company, detail>>

\* the branch of handleProcessResult on result.status: the toast it shows
ToastAfterProcess(company, result) ==
    IF result.status = "success"
    THEN SuccessToast(company)
    ELSE ErrorToast(company, result.error)

\* a slip: the success branch forgets setActiveTab('latest')
TabAfterProcess_Stays(result, tab) == tab

\* a slip: setActiveTab('latest') after the branch instead of inside it
TabAfterProcess_Always(result, tab) == "latest"

\* the branch of handleProcessResult on result.status: the tab it leaves active
TabAfterProcess(result, tab) ==
    IF result.status = "success" THEN "latest" ELSE tab

\* a slip: a click while the slot is taken leaves the slot alone
SlotAfterClick_KeepsFirst(slot, company) ==
    IF slot = Null THEN company ELSE slot

\* setProcessingCompany(company) of a click while the slot holds `slot`
SlotAfterClick(slot, company) == company

\* a slip: the slot is cleared in the success branch only
SlotAfterProcess_OnSuccessOnly(slot, result) ==
    IF result.status = "success" THEN Null ELSE slot

\* setProcessingCompany(null) after the branch on result.status
SlotAfterProcess(slot, result) == Null

\* a slip: the effect returns no cleanup, so a timer outlives its message
ToastEffect_NoCleanup(old, new, pending) ==
    IF new = old THEN pending
    ELSE IF new # NoToast THEN pending \cup {new} ELSE pending

\* the notification effect after a render in which the slot went from old to new:
\* the previous effect's cleanup clears its timer, then a timer is set when the
\* slot holds a message.  No render, hence no effect, when the value is the same.
ToastEffect(old, new, pending) ==
    IF new = old THEN pending
    ELSE IF new # NoToast THEN {new} ELSE {}

\* the body of loadUpcomingResults / loadLatestResults up to its await
StartLoad(kind) ==
    /\ BagCardinality(loads) < MaxLoads
    /\ loading' = TRUE
    /\ error' = Null
    /\ loads' = loads (+) One(kind)

----------------------------------------------------------------------------
(* Tabs and list loads *)

\* onClick of a tab button, and the activeTab effect of the render it causes
SelectTab(t) ==
    /\ activeTab' = t
    /\ IF t # activeTab /\ t = "calendar" THEN StartLoad("upcoming")
       ELSE IF t # activeTab /\ t = "latest" THEN StartLoad("latest")
       ELSE UNCHANGED <<loading, error, loads>>
    /\ UNCHANGED <<listVars, chatVars, procVars, toastVars>>

\* onClick of the refresh button
Refresh ==
    /\ IF activeTab = "calendar" THEN StartLoad("upcoming") ELSE StartLoad("latest")
    /\ UNCHANGED <<activeTab, listVars, chatVars, procVars, toastVars>>

\* loadUpcomingResults from its await on
LoadUpcomingResolve(o) ==
    /\ BagIn("upcoming", loads)
    /\ loads' = loads (-) One("upcoming")
    /\ LET r == fetchUpcomingResults(o) IN
        /\ lastFetched' = [lastFetched EXCEPT !.upcoming =
                             [failed |-> o.kind # "ok", ret |-> r]]
        /\ IF r.threw
           THEN /\ error' = "Failed to load upcoming results"
                /\ UNCHANGED upcomingResults
           ELSE /\ upcomingResults' = SetResults(upcomingResults, r.value)
                /\ UNCHANGED error
    /\ loading' = FALSE
    /\ UNCHANGED <<activeTab, latestResults, chatVars, procVars, toastVars>>

\* loadLatestResults from its await on
LoadLatestResolve(o) ==
    /\ BagIn("latest", loads)
    /\ loads' = loads (-) One("latest")
    /\ LET r == fetchLatestResults(o) IN
        /\ lastFetched' = [lastFetched EXCEPT !.latest =
                             [failed |-> o.kind # "ok", ret |-> r]]
        /\ IF r.threw
           THEN /\ error' = "Failed to load latest results"
                /\ UNCHANGED latestResults
           ELSE /\ latestResults' = SetResults(latestResults, r.value)
                /\ UNCHANGED error
    /\ loading' = FALSE
    /\ UNCHANGED <<activeTab, upcomingResults, chatVars, procVars, toastVars>>

----------------------------------------------------------------------------
(* Processing workflow and toast *)

\* onClick of a calendar card: handleProcessResult up to its await
ProcessClick(item) ==
    /\ activeTab = "calendar"
    /\ ~loading
    /\ item \in Range(upcomingResults)
    /\ BagCardinality(analyses) < MaxAnalyses
    /\ processingCompany' = SlotAfterClick(processingCompany, item.company_name)
    /\ analyses' = analyses (+) One([company |-> item.company_name,
                                     ticker |-> item.company_symbol])
    /\ UNCHANGED <<uiVars, loads, listVars, chatVars, toastVars, lastResult>>

\* handleProcessResult from its await on, and the effects of the render it causes
ProcessResolve(req, o) ==
    /\ BagIn(req, analyses)
    /\ analyses' = analyses (-) One(req)
    /\ LET r == triggerResultProcessing(o) IN
        /\ lastResult' = [company |-> req.company, ok |-> o.kind = "ok",
                          threw |-> r.threw,
                          result |-> IF r.threw THEN [status |-> "none"] ELSE r.value]
        /\ IF r.threw
           THEN \* the await rejects: the rest of the handler does not run
                UNCHANGED <<notification, activeTab, processingCompany>>
           ELSE /\ notification' = ToastAfterProcess(req.company, r.value)
                /\ activeTab' = TabAfterProcess(r.value, activeTab)
                /\ processingCompany' = SlotAfterProcess(processingCompany, r.value)
    /\ IF activeTab' # activeTab /\ activeTab' = "calendar" THEN StartLoad("upcoming")
       ELSE IF activeTab' # activeTab /\ activeTab' = "latest" THEN StartLoad("latest")
       ELSE UNCHANGED <<loading, error, loads>>
    /\ timers' = ToastEffect(notification, notification', timers)
    /\ replaced' = IF notification' = notification THEN replaced
                   ELSE notification # NoToast
    /\ stale' = IF triggerResultProcessing(o).threw THEN stale
                ELSE timers' # {} /\ timers' = timers
    /\ UNCHANGED <<listVars, chatVars>>

\* the setTimeout callback of the notification effect
ToastExpire ==
    /\ \E m \in timers :
          /\ notification' = NoToast
          /\ timers' = ToastEffect(notification, notification', timers \ {m})
    /\ replaced' = IF notification' = notification THEN replaced ELSE FALSE
    /\ stale' = (stale /\ timers' # {})
    /\ UNCHANGED <<uiVars, loads, listVars, chatVars, procVars>>

----------------------------------------------------------------------------
(* Chat *)

\* onChange of the chat input
SetChatInput(s) ==
    /\ activeTab = "chat"
    /\ s # chatInput
    /\ chatInput' = s
    /\ UNCHANGED <<uiVars, loads, listVars, chatMessages, chats, asked, overlapped,
                   procVars, toastVars>>

\* onSubmit of the chat form: handleChatSubmit up to its await
ChatSubmit ==
    /\ activeTab = "chat"
    /\ IF Trim(chatInput) = <<>>
       THEN UNCHANGED chatVars
       ELSE /\ Len(asked) < MaxSubmits
            /\ BagCardinality(chats) < MaxChats
            /\ chatMessages' =
                 AppendTurn(AppendTurn(chatMessages,
                                       [type |-> "user", text |-> chatInput]),
                            [type |-> "bot", text |-> Thinking])
            /\ chatInput' = <<>>
            /\ chats' = chats (+) One(chatInput)
            /\ asked' = Append(asked, chatInput)
            /\ overlapped' = (overlapped \/ chats # EmptyBag)
    /\ UNCHANGED <<uiVars, loads, listVars, procVars, toastVars>>

\* handleChatSubmit from its await on
ChatResolve(q, o) ==
    /\ BagIn(q, chats)
    /\ chats' = chats (-) One(q)
    /\ LET r == sendChatMessage(o) IN
        IF r.threw
        THEN \* the await rejects: the rest of the handler does not run
             UNCHANGED chatMessages
        ELSE chatMessages' = ReplaceLastTurn(chatMessages, r.value)
    /\ UNCHANGED <<chatInput, asked, overlapped, uiVars, loads, listVars,
                   procVars, toastVars>>

----------------------------------------------------------------------------
Questions == {s \in ChatInputs : Trim(s) # <<>>}

Companies == {Wipro, TCS}

AnalysisRequests ==
    {[company |-> c.company_name, ticker |-> c.company_symbol] : c \in Companies}

Next ==
    \/ \E t \in Tabs : SelectTab(t)
    \/ Refresh
    \/ \E o \in Outcomes(UpcomingFeeds) : LoadUpcomingResolve(o)
    \/ \E o \in Outcomes(LatestFeeds) : LoadLatestResolve(o)
    \/ \E item \in Companies : ProcessClick(item)
    \/ \E req \in AnalysisRequests, o \in Outcomes({<<"analysis">>}) :
            ProcessResolve(req, o)
    \/ ToastExpire
    \/ \E s \in ChatInputs : SetChatInput(s)
    \/ ChatSubmit
    \/ \E q \in Questions : \E o \in Outcomes({Answer(q)}) : ChatResolve(q, o)

Spec == Init /\ [][Next]_vars

\* The dashboard without the chat form: the chat handlers read and write
\* chatVars only, and of the rest read activeTab only.
NextDash ==
    \/ \E t \in Tabs : SelectTab(t)
    \/ Refresh
    \/ \E o \in Outcomes(UpcomingFeeds) : LoadUpcomingResolve(o)
    \/ \E o \in Outcomes(LatestFeeds) : LoadLatestResolve(o)
    \/ \E item \in Companies : ProcessClick(item)
    \/ \E req \in AnalysisRequests, o \in Outcomes({<<"analysis">>}) :
            ProcessResolve(req, o)
    \/ ToastExpire

SpecDash == Init /\ [][NextDash]_vars

\* The chat session with the tabs and their loads, without the processing
\* workflow and its toast, which change no variable a chat handler reads
\* but activeTab.
NextChat ==
    \/ \E t \in Tabs : SelectTab(t)
    \/ Refresh
    \/ \E o \in Outcomes(UpcomingFeeds) : LoadUpcomingResolve(o)
    \/ \E o \in Outcomes(LatestFeeds) : LoadLatestResolve(o)
    \/ \E s \in ChatInputs : SetChatInput(s)
    \/ ChatSubmit
    \/ \E q \in Questions : \E o \in Outcomes({Answer(q)}) : ChatResolve(q, o)

SpecChat == Init /\ [][NextChat]_vars

\* One session with every handler of the dashboard: the user asks one question,
\* the calendar lists one company, and the latest list is empty or fails.
NextSession ==
    \/ \E t \in Tabs : SelectTab(t)
    \/ Refresh
    \/ \E o \in Outcomes({<<Wipro>>}) : LoadUpcomingResolve(o)
    \/ \E o \in Outcomes({}) : LoadLatestResolve(o)
    \/ ProcessClick(Wipro)
    \/ \E req \in AnalysisRequests, o \in Outcomes({<<"analysis">>}) :
            ProcessResolve(req, o)
    \/ ToastExpire
    \/ \E s \in {<<>>, <<"a">>} : SetChatInput(s)
    \/ ChatSubmit
    \/ \E o \in Outcomes({Answer(<<"a">>)}) : ChatResolve(<<"a">>, o)

SpecSession == Init /\ [][NextSession]_vars

----------------------------------------------------------------------------
(* Properties of the chat session *)

Placeholder == [type |-> "bot", text |-> Thinking]

\* the number of turns that are still the "thinking" placeholder
NumPlaceholders(msgs) == Cardinality({i \in 1..Len(msgs) : msgs[i] = Placeholder})

Outstanding == BagCardinality(chats)

\* C1 as stated: as long as no submit overlapped another, the transcript has
\* exactly 2N turns once N submits are resolved (none outstanding), and never
\* more placeholders than outstanding sendChat requests.
C1_Original ==
    ~overlapped =>
        /\ (chats = EmptyBag => Len(chatMessages) = 2 * Len(asked))
        /\ NumPlaceholders(chatMessages) <= Outstanding

\* C1 amended: as long as no submit overlapped another, the transcript has
\* exactly 2N + 1 turns once N submits are resolved (the greeting and N
\* user+bot pairs), and never more placeholders than outstanding requests.
C1_Amended ==
    ~overlapped =>
        /\ (chats = EmptyBag => Len(chatMessages) = 2 * Len(asked) + 1)
        /\ NumPlaceholders(chatMessages) <= Outstanding

C1_Witness ==
    /\ ~overlapped
    /\ chats = EmptyBag
    /\ Len(asked) = 2
    /\ Len(chatMessages) = 5

\* C2 as stated: the transcript holds 0 or 1 placeholder in every reachable
\* state, whatever the interleaving of submits and responses.
C2_Original == NumPlaceholders(chatMessages) \in {0, 1}

\* C2 amended: the transcript holds 0 or 1 placeholder as long as no submit
\* overlapped another; in general it holds at most one placeholder per
\* accepted submit, each directly after a user turn.
C2_Amended ==
    /\ ~overlapped => NumPlaceholders(chatMessages) \in {0, 1}
    /\ NumPlaceholders(chatMessages) <= Len(asked)
    /\ \A i \in 1..Len(chatMessages) :
          chatMessages[i] = Placeholder =>
              i > 1 /\ chatMessages[i - 1].type = "user"

C2_Witness ==
    /\ ~overlapped
    /\ Len(asked) = 2
    /\ Outstanding = 1
    /\ NumPlaceholders(chatMessages) = 1

\* C3, as the final result of the liveness claim: once every outstanding
\* sendChat request has resolved, no turn is still the placeholder.
C3_NoThinkingWhenIdle ==
    chats = EmptyBag => NumPlaceholders(chatMessages) = 0

\* C4: an accepted submit appends the user turn and the placeholder, clears
\* the input and issues the request in one step; and whenever a response can
\* still arrive the transcript ends with a placeholder, which the response
\* replaces by a bot turn.
C4_PlaceholderBeforeResponse ==
    [][/\ Len(asked') > Len(asked) =>
            /\ chatMessages' = chatMessages \o
                   <<[type |-> "user", text |-> chatInput], Placeholder>>
            /\ chatInput' = <<>>
            /\ chats' = chats (+) One(chatInput)
       /\ chats # EmptyBag => chatMessages[Len(chatMessages)] = Placeholder
       /\ Outstanding' < Outstanding =>
            /\ Len(chatMessages') = Len(chatMessages)
            /\ chatMessages'[Len(chatMessages')].type = "bot"
            /\ SubSeq(chatMessages', 1, Len(chatMessages') - 1)
                 = SubSeq(chatMessages, 1, Len(chatMessages) - 1)]_vars

\* C19: when submits have overlapped, then once every request has resolved,
\* in whatever order, the transcript is the greeting followed by one pair per
\* submit: the question and, directly after it, the answer to that question.
C19_OwnPlaceholder ==
    (overlapped /\ chats = EmptyBag) =>
        /\ Len(chatMessages) = 2 * Len(asked) + 1
        /\ \A i \in 1..Len(asked) :
              /\ chatMessages[2 * i] = [type |-> "user", text |-> asked[i]]
              /\ chatMessages[2 * i + 1].type = "bot"
              /\ chatMessages[2 * i + 1].text \in {Answer(asked[i]), Apology, ConnError}

\* C20: no step shortens the transcript, and a step that changes an existing
\* turn changes the last one only, which was the placeholder and becomes an
\* answer: an answer already written is never overwritten.
C20_OnlyPlaceholderMutated ==
    [][/\ Len(chatMessages') >= Len(chatMessages)
       /\ \A i \in 1..Len(chatMessages) :
             chatMessages'[i] # chatMessages[i] =>
                 /\ i = Len(chatMessages)
                 /\ chatMessages[i] = Placeholder
                 /\ chatMessages'[i].type = "bot"]_vars

IsUserTurn(m) == m.type = "user"

\* the texts of the user turns of a transcript, in order
UserTexts(msgs) ==
    LET u == SelectSeq(msgs, IsUserTurn) IN [i \in 1..Len(u) |-> u[i].text]

\* C24: under every interleaving of submits and responses the user turns of
\* the transcript are the accepted questions in submission order, and the last
\* turn, the one a response replaces, is a bot turn.
C24_UserTurnsKept ==
    /\ UserTexts(chatMessages) = asked
    /\ chatMessages[Len(chatMessages)].type = "bot"

C24_Witness ==
    /\ overlapped
    /\ chats = EmptyBag
    /\ asked = <<<<"a">>, <<" ", "b">>>>
    /\ UserTexts(chatMessages) = asked
    /\ chatMessages[3] = Placeholder

\* a text of whitespace only (the empty text included)
Blank(s) == \A i \in 1..Len(s) : s[i] = " "

\* C23: on the chat tab the form can be submitted with an input that is blank
\* after trimming, and that submit changes nothing; no step taken from a state
\* with a blank input accepts a question or issues a sendChatMessage request.
C23_BlankSubmitNoOp ==
    [][/\ (activeTab = "chat" /\ Blank(chatInput)) => ENABLED ChatSubmit
       /\ (Blank(chatInput) /\ ChatSubmit) => UNCHANGED vars
       /\ Blank(chatInput) =>
             /\ asked' = asked
             /\ Outstanding' <= Outstanding
             /\ Len(chatMessages') = Len(chatMessages)]_vars

C23_Witness ==
    /\ activeTab = "chat"
    /\ chatInput = <<" ">>
    /\ asked = <<<<"a">>>>
    /\ chats = EmptyBag
    /\ Len(chatMessages) = 3

----------------------------------------------------------------------------
(* Properties of the processing workflow *)

ReqOf(item) == [company |-> item.company_name, ticker |-> item.company_symbol]

InFlight == BagCardinality(analyses)

\* C5 as stated: at most one triggerAnalysis request is in flight.
C5_Original == InFlight <= 1

\* C5 amended: a second trigger while a request is outstanding is accepted
\* (several requests may be in flight); what is single is the slot, which is
\* empty or names one company that has a request in flight.
C5_Amended ==
    /\ processingCompany \in {Null} \cup {c.company_name : c \in Companies}
    /\ processingCompany # Null =>
          \E req \in BagToSet(analyses) : req.company = processingCompany

C5_Witness ==
    /\ CopiesIn(ReqOf(Wipro), analyses) = 2
    /\ processingCompany = "Wipro"

\* C6: a trigger for a company sets the slot to that company at once, also
\* when another request is outstanding (the slot is overwritten), and every
\* request outstanding before the trigger stays outstanding beside the new one.
C6_Overwrite ==
    [][InFlight' > InFlight =>
          \E item \in Companies :
              /\ processingCompany' = item.company_name
              /\ analyses' = analyses (+) One(ReqOf(item))]_vars

C6_Witness ==
    /\ processingCompany = "TCS"
    /\ BagIn(ReqOf(Wipro), analyses)
    /\ BagIn(ReqOf(TCS), analyses)

\* C7: when an analysis of company C resolves with status success, the toast
\* is the success message naming C, the slot is cleared and the active tab is
\* latest, whatever tab was active before.
C7_Success ==
    [][(InFlight' < InFlight /\ lastResult'.result.status = "success") =>
          /\ notification' = SuccessToast(lastResult'.company)
          /\ processingCompany' = Null
          /\ activeTab' = "latest"]_vars

C7_Witness ==
    /\ lastResult.result.status = "success"
    /\ lastResult.company = "Wipro"
    /\ notification = SuccessToast("Wipro")
    /\ processingCompany = Null
    /\ activeTab = "latest"

\* C8: when an analysis of company C resolves with status error, the toast is
\* the error message with C and the error detail, the slot is cleared, and the
\* active tab, both lists and the chat transcript are unchanged.
C8_Error ==
    [][(InFlight' < InFlight /\ lastResult'.result.status = "error") =>
          /\ notification' = ErrorToast(lastResult'.company, lastResult'.result.error)
          /\ processingCompany' = Null
          /\ UNCHANGED <<activeTab, upcomingResults, latestResults, chatMessages>>]_vars

C8_Witness ==
    /\ lastResult.result.status = "error"
    /\ lastResult.company = "TCS"
    /\ notification = ErrorToast("TCS", "Failed to process result")
    /\ processingCompany = Null
    /\ activeTab = "calendar"

----------------------------------------------------------------------------
(* Properties of the list loads *)

ListOf(kind) == IF kind = "upcoming" THEN upcomingResults ELSE latestResults

\* C9: when the fetch of a load failed (transport error or non-success
\* status), then once the load has resolved the error message is set and the
\* list is unchanged or empty.
C9_ErrorOnFailedFetch ==
    [][\A kind \in {"upcoming", "latest"} :
          (CopiesIn(kind, loads') < CopiesIn(kind, loads) /\ lastFetched'[kind].failed) =>
              /\ error' # Null
              /\ ListOf(kind)' \in {ListOf(kind), <<>>}]_vars

\* C10: each list always equals exactly what its last resolved fetch returned
\* (or the initial empty list): one whole fetch result, never a merge.
C10_Snapshot ==
    /\ upcomingResults = lastFetched.upcoming.ret.value
    /\ latestResults = lastFetched.latest.ret.value
    /\ upcomingResults \in UpcomingFeeds \cup {<<>>}
    /\ latestResults \in LatestFeeds \cup {<<>>}

C10_Witness ==
    /\ upcomingResults = <<TCS, Wipro>>
    /\ latestResults = <<"Wipro">>
    /\ lastFetched.latest.ret.value = <<"Wipro">>
    /\ BagCardinality(loads) = 2

TabOf(kind) == IF kind = "upcoming" THEN "calendar" ELSE "latest"

\* C11: the list of the active tab is loading, in error, or the result of the
\* last successful load of that tab: a load that failed after a successful one
\* and leaves the tab neither loading nor in error leaves the snapshot of the
\* successful load on display.
C11_SnapshotSurvivesFailure ==
    [][\A kind \in {"upcoming", "latest"} :
          (/\ CopiesIn(kind, loads') < CopiesIn(kind, loads)
           /\ lastFetched'[kind].failed
           /\ ~lastFetched[kind].failed
           /\ activeTab' = TabOf(kind)
           /\ ~loading'
           /\ error' = Null) =>
              ListOf(kind)' = lastFetched[kind].ret.value]_vars

----------------------------------------------------------------------------
(* Liveness: every issued request is eventually answered *)

Fairness ==
    /\ WF_vars(\E o \in Outcomes(UpcomingFeeds) : LoadUpcomingResolve(o))
    /\ WF_vars(\E o \in Outcomes(LatestFeeds) : LoadLatestResolve(o))
    /\ WF_vars(\E req \in AnalysisRequests, o \in Outcomes({<<"analysis">>}) :
                   ProcessResolve(req, o))

SpecDashFair == SpecDash /\ Fairness

\* C12: when every request is eventually answered, a loading flag that is
\* true is eventually false and a processing slot that is taken is eventually
\* empty, whether the requests succeed or fail.
C12_NoStuckSpinner ==
    /\ loading ~> ~loading
    /\ (processingCompany # Null) ~> (processingCompany = Null)

C12_Witness ==
    /\ ~loading
    /\ processingCompany = Null
    /\ lastFetched.upcoming.failed
    /\ lastResult.result.status = "error"
    /\ loads = EmptyBag
    /\ analyses = EmptyBag

\* C18: every step in which an analysis resolves with status success issues
\* one new load of the latest list, whatever tab is active at that moment.
C18_SuccessReloadsLatest ==
    [][(InFlight' < InFlight /\ lastResult'.result.status = "success") =>
          loads' = loads (+) One("latest")]_vars

----------------------------------------------------------------------------
(* Properties of the toast *)

\* C13: showing B while a different message A is still on display leaves B on
\* display with exactly one pending timer, B's own; no timer of a message that
\* is no longer on display is ever pending, and a step that clears the toast
\* is the expiry of the timer of the message it clears.
C13_ShowShow ==
    [][/\ (notification # NoToast /\ notification' # NoToast
            /\ notification' # notification) =>
              /\ notification' = ToastAfterProcess(lastResult'.company, lastResult'.result)
              /\ timers' = {notification'}
       /\ timers' \subseteq {notification'}
       /\ (notification # NoToast /\ notification' = NoToast) =>
              notification \in timers]_vars

C13_Witness ==
    /\ replaced
    /\ notification = ErrorToast("TCS", "Failed to fetch")
    /\ timers = {notification}

\* C22: every step that shows a message, the message on display included,
\* leaves a countdown started by that very step, so that a step that clears the
\* toast is the expiry of a countdown started by the most recent show.
C22_ShowRestartsCountdown ==
    [][/\ (InFlight' < InFlight /\ ~lastResult'.threw) =>
             (notification' # NoToast /\ timers' = {notification'} /\ ~stale')
       /\ (notification # NoToast /\ notification' = NoToast) => ~stale]_vars

----------------------------------------------------------------------------
(* Properties of the tab controller *)

\* C14: the active tab starts as calendar and is always one of the three tabs;
\* a tab selection is possible for every target tab; and the tab changes only
\* in a step that is the user's selection (nothing else but the load it
\* triggers changes) or the resolution of an analysis with status success,
\* which leaves it on latest: loads, chat submits and responses, toast expiry
\* and failed analyses leave it alone.
C14_TabFrame ==
    /\ activeTab = "calendar"
    /\ [][/\ activeTab' \in Tabs
          /\ \A t \in Tabs :
                (t \in {activeTab, "chat"} \/ BagCardinality(loads) < MaxLoads) =>
                    ENABLED SelectTab(t)
          /\ activeTab' # activeTab =>
                \/ /\ InFlight' < InFlight
                   /\ lastResult'.result.status = "success"
                   /\ activeTab' = "latest"
                \/ UNCHANGED <<listVars, chatVars, procVars, toastVars>>]_vars

C14_Witness ==
    /\ activeTab = "chat"
    /\ lastResult.result.status = "error"
    /\ notification = NoToast
    /\ lastFetched.latest.failed
    /\ Len(asked) = 1
    /\ chats = EmptyBag

----------------------------------------------------------------------------
(* Properties of the API service *)

\* C15: fetchUpcomingResults and fetchLatestResults never reject: whenever the
\* fetch failed (transport error, non-success status) the call returned the
\* empty sequence, so the catch branch of neither loader has run and the
\* error message is never set.
C15_FetchNeverThrows ==
    /\ error = Null
    /\ \A kind \in {"upcoming", "latest"} :
          /\ ~lastFetched[kind].ret.threw
          /\ lastFetched[kind].failed => lastFetched[kind].ret.value = <<>>

C15_Witness ==
    /\ lastFetched.upcoming.failed
    /\ lastFetched.latest.failed
    /\ lastFetched.upcoming.ret = [threw |-> FALSE, value |-> <<>>]
    /\ error = Null
    /\ ~loading

\* C16: sendChatMessage never rejects and returns a text: the answer field of
\* the body when the request succeeded and the field is there, a fixed string
\* otherwise (the connection error for a failed request, the apology for a
\* missing answer); and every step that resolves a chat request writes a bot
\* turn with such a text at the end of the transcript.
C16_ChatAlwaysAnswers ==
    /\ \A q \in Questions : \A o \in Outcomes({Answer(q)}) :
          /\ ~sendChatMessage(o).threw
          /\ sendChatMessage(o).value =
                 IF o.kind # "ok" THEN ConnError
                 ELSE IF o.falsy THEN Apology ELSE o.body
          /\ sendChatMessage(o).value # <<>>
    /\ [][Outstanding' < Outstanding =>
             \E q \in Questions :
                 /\ chats = chats' (+) One(q)
                 /\ Len(chatMessages') = Len(chatMessages)
                 /\ chatMessages'[Len(chatMessages')].type = "bot"
                 /\ chatMessages'[Len(chatMessages')].text
                        \in {Answer(q), Apology, ConnError}]_vars

C16_Witness ==
    /\ chats = EmptyBag
    /\ Len(asked) = 2
    /\ Len(chatMessages) = 5
    /\ chatMessages[3] = [type |-> "bot", text |-> Answer(asked[1])]
    /\ chatMessages[5] = [type |-> "bot", text |-> ConnError]

\* C17: triggerResultProcessing never rejects: its result is tagged success
\* and carries the data exactly when the request got a success status and a
\* body that parses, and is tagged error and carries the error detail for
\* every other outcome; every analysis the dashboard has seen resolve gave it
\* such a result.
C17_TaggedResult ==
    /\ \A o \in Outcomes({<<"analysis">>}) :
          LET r == triggerResultProcessing(o) IN
              /\ ~r.threw
              /\ r.value.status = IF o.kind = "ok" THEN "success" ELSE "error"
              /\ DOMAIN r.value = IF o.kind = "ok" THEN {"status", "data"}
                                  ELSE {"status", "error"}
    /\ lastResult.company # Null =>
          /\ ~lastResult.threw
          /\ lastResult.result.status \in {"success", "error"}
          /\ lastResult.result.status = "success" <=> lastResult.ok
          /\ lastResult.result.status = "success" =>
                DOMAIN lastResult.result = {"status", "data"}
          /\ lastResult.result.status = "error" =>
                DOMAIN lastResult.result = {"status", "error"}

C17_Witness ==
    /\ lastResult.company = "Wipro"
    /\ ~lastResult.ok
    /\ lastResult.result = [status |-> "error", error |-> "Unexpected end of JSON input"]
    /\ analyses = EmptyBag

----------------------------------------------------------------------------
(* Properties of the loads issued by the tabs and the refresh button *)

\* C21: the mount on calendar issues a load of the upcoming list; every step
\* that changes the active tab to calendar (latest) issues one load of the
\* upcoming (latest) list and a step that changes it to chat issues none; and
\* a refresh, the only step that issues a load without changing the tab,
\* issues a load of the list of the active tab.
C21_LoadsOnEntry ==
    /\ activeTab = "calendar" /\ loads = One("upcoming")
    /\ [][/\ (activeTab' # activeTab /\ activeTab' = "calendar") =>
                loads' = loads (+) One("upcoming")
          /\ (activeTab' # activeTab /\ activeTab' = "latest") =>
                loads' = loads (+) One("latest")
          /\ (activeTab' # activeTab /\ activeTab' = "chat") =>
                loads' = loads
          /\ (activeTab' = activeTab
                 /\ BagCardinality(loads') > BagCardinality(loads)) =>
                \E kind \in {"upcoming", "latest"} :
                    /\ activeTab = TabOf(kind)
                    /\ loads' = loads (+) One(kind)]_vars

\* C25: the loading flag is true in every state in which a list load is
\* outstanding, overlapping loads included.
C25_LoadingWhileOutstanding ==
    loads # EmptyBag => loading

\* C26: whenever an analysis request is outstanding, the processing slot names
\* a company that has a request in flight; an empty slot means no request is
\* outstanding.
C26_SlotWhileOutstanding ==
    /\ processingCompany = Null => analyses = EmptyBag
    /\ analyses # EmptyBag =>
          \E req \in BagToSet(analyses) : req.company = processingCompany

====
